---- MODULE Spec2Model ----
(***************************************************************************)
(* Model of the Shakespeare data preparation pipeline (src/main.py):       *)
(*   process_act_scene_line -> process_stage_directions -> chunk           *)
(* with merge_chunks and extract_names from src/data.py.                   *)
(*                                                                         *)
(* Python strings are modelled as sequences of one-character strings, so   *)
(* that splitting, stripping, replacing and case tests are computed the    *)
(* way the code computes them.  Python dicts are functions from keys to    *)
(* values; sets are sets; list(set) is kept as the set (its order is       *)
(* unspecified in Python).                                                 *)
(***************************************************************************)
EXTENDS Integers, Sequences, FiniteSets, TLC

(***************************************************************************)
(* Bounds of the model.                                                    *)
(***************************************************************************)
MaxRows == 3

MaxChunkSize == 3

(***************************************************************************)
(* Python values that are not strings.                                     *)
(***************************************************************************)
None == <<"<None>">>

NaN == <<"<NaN>">>

NoneInt == 0 - 1

IsStr(v) == v # None /\ v # NaN

(***************************************************************************)
(* Characters and string primitives.                                       *)
(***************************************************************************)
Upper == {"A","B","C","D","E","F","G","H","I","J","K","L","M",
          "N","O","P","Q","R","S","T","U","V","W","X","Y","Z"}

Lower == {"a","b","c","d","e","f","g","h","i","j","k","l","m",
          "n","o","p","q","r","s","t","u","v","w","x","y","z"}

Whitespace == {" ", "\n", "\t"}

Digits == <<"0","1","2","3","4","5","6","7","8","9">>

Drop(s, n) == SubSeq(s, n + 1, Len(s))

HasPrefix(s, p) == Len(s) >= Len(p) /\ SubSeq(s, 1, Len(p)) = p

\* Python: sub in s
Contains(s, sub) == \E k \in 0..(Len(s) - Len(sub)) : HasPrefix(Drop(s, k), sub)

RECURSIVE replace(_, _)
\* Python: s.replace(old, "")
replace(s, old) ==
    IF s = <<>> THEN <<>>
    ELSE IF HasPrefix(s, old) THEN replace(Drop(s, Len(old)), old)
    ELSE <<Head(s)>> \o replace(Tail(s), old)

RECURSIVE lstrip(_)
lstrip(s) == IF s # <<>> /\ Head(s) \in Whitespace THEN lstrip(Tail(s)) ELSE s

RECURSIVE rstrip(_)
rstrip(s) ==
    IF s # <<>> /\ s[Len(s)] \in Whitespace THEN rstrip(SubSeq(s, 1, Len(s) - 1)) ELSE s

\* Python: s.strip()
strip(s) == rstrip(lstrip(s))

\* Python: s.islower(): at least one cased character and no uppercase one
islower(s) ==
    /\ \E k \in 1..Len(s) : s[k] \in Lower
    /\ \A k \in 1..Len(s) : s[k] \notin Upper

RECURSIVE SplitOn(_, _, _)
\* Python: s.split(" ") (cur is the piece being collected)
SplitOn(s, sep, cur) ==
    IF s = <<>> THEN <<cur>>
    ELSE IF Head(s) = sep THEN <<cur>> \o SplitOn(Tail(s), sep, <<>>)
    ELSE SplitOn(Tail(s), sep, Append(cur, Head(s)))

RECURSIVE SplitWs(_, _)
\* Python: s.split() (runs of whitespace separate, empty pieces are dropped)
SplitWs(s, cur) ==
    IF s = <<>> THEN (IF cur = <<>> THEN <<>> ELSE <<cur>>)
    ELSE IF Head(s) \in Whitespace
         THEN (IF cur = <<>> THEN <<>> ELSE <<cur>>) \o SplitWs(Tail(s), <<>>)
    ELSE SplitWs(Tail(s), Append(cur, Head(s)))

\* Python: len(s.split())
WordCount(s) == Len(SplitWs(s, <<>>))

RECURSIVE Join(_, _)
\* Python: sep.join(parts)
Join(parts, sep) ==
    IF parts = <<>> THEN <<>>
    ELSE IF Len(parts) = 1 THEN parts[1]
    ELSE parts[1] \o sep \o Join(Tail(parts), sep)

RECURSIVE SelectWords(_)
\* Python: [word for word in words if not word.islower()]
SelectWords(words) ==
    IF words = <<>> THEN <<>>
    ELSE (IF islower(Head(words)) THEN <<>> ELSE <<Head(words)>>)
         \o SelectWords(Tail(words))

RECURSIVE ParseInt(_, _)
\* Python: int(s) for a string of decimal digits (acc is the value so far)
ParseInt(s, acc) ==
    IF s = <<>> THEN acc
    ELSE ParseInt(Tail(s),
                  10 * acc + ((CHOOSE d \in 1..10 : Digits[d] = Head(s)) - 1))

RECURSIVE IntToStr(_)
IntToStr(n) ==
    IF n < 10 THEN <<Digits[n + 1]>>
    ELSE IntToStr(n \div 10) \o <<Digits[(n % 10) + 1]>>

\* Python: str(v) for v an int or None
pystr(v) == IF v = NoneInt THEN <<"N","o","n","e">> ELSE IntToStr(v)

(***************************************************************************)
(* extract_names                                                           *)
(***************************************************************************)
kwEnter == <<"E","n","t","e","r">>

kwExit == <<"E","x","i","t">>

kwExeunt == <<"E","x","e","u","n","t">>

kwReenter == <<"R","e","-","e","n","t","e","r">>

kwExeuntAllBut == kwExeunt \o <<" ","a","l","l"," ","b","u","t">>

\* length of the separator matched at the head of s by  ,? and |, |\.  (0: none)
SepLen(s) ==
    IF HasPrefix(s, <<",", " ", "a", "n", "d", " ">>) THEN 6
    ELSE IF HasPrefix(s, <<" ", "a", "n", "d", " ">>) THEN 5
    ELSE IF HasPrefix(s, <<",", " ">>) THEN 2
    ELSE IF HasPrefix(s, <<".", " ">>) THEN 2
    ELSE 0

RECURSIVE ReSplit(_, _)
\* Python: re.split(r",? and |, |\. ", s)
ReSplit(s, cur) ==
    IF s = <<>> THEN <<cur>>
    ELSE IF SepLen(s) > 0 THEN <<cur>> \o ReSplit(Drop(s, SepLen(s)), <<>>)
    ELSE ReSplit(Tail(s), Append(cur, Head(s)))

HasKeyword(name) ==
    \/ Contains(name, kwEnter)
    \/ Contains(name, kwExit)
    \/ Contains(name, kwExeunt)
    \/ Contains(name, kwReenter)

StripKeywords(name) ==
    strip(replace(replace(replace(replace(name, kwEnter), kwExit), kwExeunt), kwReenter))

DropLowerWords(name) == Join(SelectWords(SplitOn(name, " ", <<>>)), <<" ">>)

RECURSIVE CleanNames(_)
\* the loop of extract_names over the split fragments
CleanNames(names) ==
    IF names = <<>> THEN <<>>
    ELSE LET name == Head(names)
             rest == CleanNames(Tail(names))
         IN  IF strip(name) = <<>> THEN rest
             ELSE IF HasKeyword(name)
                  THEN <<strip(DropLowerWords(StripKeywords(name)))>> \o rest
             ELSE IF islower(name) THEN rest
             ELSE <<strip(DropLowerWords(name))>> \o rest

extract_names(text) == CleanNames(ReSplit(text, <<>>))

(***************************************************************************)
(* Dicts (rows and chunks).                                                *)
(***************************************************************************)
Has(d, k) == k \in DOMAIN d

\* Python: d.get(k)
Get(d, k) == IF Has(d, k) THEN d[k] ELSE None

\* Python: d[k] = v
Put(d, k, v) == [x \in (DOMAIN d) \cup {k} |-> IF x = k THEN v ELSE d[x]]

\* Python: d.pop(k, None) for every k of ks
Pop(d, ks) == [x \in (DOMAIN d) \ ks |-> d[x]]

EmptyDict == [x \in {} |-> None]

\* Python truth value of d.get(k) for a string-valued key (NaN is truthy)
TruthyStr(v) == v # None /\ v # <<>>

\* d.get(k) for a set- or list-valued key, the empty set when absent or empty
GetSet(d, k) == IF Has(d, k) THEN d[k] ELSE {}

Range(s) == {s[k] : k \in 1..Len(s)}

Last(s) == s[Len(s)]

(***************************************************************************)
(* The input table (pd.read_csv): names, texts and rows.                   *)
(***************************************************************************)
HAMLET == <<"H","A","M","L","E","T">>

OPHELIA == <<"O","P","H","E","L","I","A">>

sp == <<" ">>

dot == <<".">>

and == <<" ","a","n","d"," ">>

PlayH == <<"H">>

PlayM == <<"M">>

Words1 == <<"a">>

Words2 == <<"a"," ","b">>

Words4 == <<"a"," ","b"," ","c"," ","d">>

txtEnterHamlet == kwEnter \o sp \o HAMLET

txtEnterOphelia == kwEnter \o sp \o OPHELIA

txtEnterHamletAndOphelia == kwEnter \o sp \o HAMLET \o and \o OPHELIA \o dot

txtExeuntDot == kwExeunt \o dot

txtExeunt == kwExeunt

txtExeuntAllButHamlet == kwExeuntAllBut \o sp \o HAMLET \o dot

txtExit == kwExit

txtReenterOphelia == kwReenter \o sp \o OPHELIA

txtEnterExeunt == kwEnter \o sp \o HAMLET \o dot \o sp \o kwExeunt \o sp \o OPHELIA

txtExitExeunt == kwExit \o sp \o kwExeunt

txtEnter == kwEnter

txtEnterALord == kwEnter \o <<" ","a"," ","l","o","r","d">>

Asl(a, s, l) == a \o dot \o s \o dot \o l

Row(play, asl, player, text) ==
    [Play |-> play, PlayerLinenumber |-> <<"1">>, ActSceneLine |-> asl,
     Player |-> player, PlayerLine |-> text]

\* rows exercising the chunk assembler: two scenes, two plays, two speakers,
\* lines of 1, 2 and 4 words, and a stage direction
ChunkRows ==
    { Row(PlayH, Asl(<<"1">>, <<"1">>, <<"1">>), HAMLET, Words1),
      Row(PlayH, Asl(<<"1">>, <<"1">>, <<"2">>), HAMLET, Words2),
      Row(PlayH, Asl(<<"1">>, <<"1">>, <<"3">>), OPHELIA, Words1),
      Row(PlayH, Asl(<<"1">>, <<"1">>, <<"4">>), OPHELIA, Words4),
      Row(PlayH, Asl(<<"1">>, <<"2">>, <<"1">>), OPHELIA, Words2),
      Row(PlayH, Asl(<<"1">>, <<"2">>, <<"2">>), HAMLET, Words1),
      Row(PlayM, Asl(<<"1">>, <<"1">>, <<"1">>), HAMLET, Words1),
      Row(PlayH, NaN, NaN, txtEnterHamlet) }

StageDirectionTexts ==
    { txtEnterHamlet, txtEnterOphelia, txtEnterHamletAndOphelia,
      txtExeuntDot, txtExeunt, txtExeuntAllButHamlet, txtExit }

\* rows exercising the presence tracker: stage directions, dialogue in two
\* scenes, an act written "01", and rows where speaker and identifier disagree
TrackRows ==
    { Row(PlayH, NaN, NaN, t) : t \in StageDirectionTexts }
    \cup
    { Row(PlayH, Asl(<<"1">>, <<"1">>, <<"1">>), HAMLET, Words1),
      Row(PlayH, Asl(<<"1">>, <<"2">>, <<"1">>), OPHELIA, Words1),
      Row(PlayH, Asl(<<"0","1">>, <<"1">>, <<"2">>), HAMLET, Words1),
      Row(PlayH, NaN, HAMLET, txtExit),
      Row(PlayH, Asl(<<"1">>, <<"1">>, <<"3">>), NaN, txtEnterOphelia) }

\* rows exercising the keyword classification: texts with two keywords,
\* "Re-enter", and a verb without any name
KeywordRows ==
    { Row(PlayH, NaN, NaN, t) :
        t \in { txtEnterHamlet, txtReenterOphelia, txtEnterExeunt, txtExitExeunt,
                txtExeuntAllButHamlet, txtEnter, txtEnterALord } }
    \cup
    { Row(PlayH, Asl(<<"1">>, <<"1">>, <<"1">>), HAMLET, Words1) }

Tables(rows) == UNION { [1..n -> rows] : n \in 1..MaxRows }

Inputs == Tables(ChunkRows) \cup Tables(TrackRows)

(***************************************************************************)
(* State.                                                                  *)
(***************************************************************************)
VARIABLES
    pc,                 \* the pipeline stage being executed (main.py)
    df,                 \* the table passed from stage to stage
    i,                  \* position of the row loop of the running stage
    acts, scenes, lines,            \* process_act_scene_line accumulators
    new_lines, characters, current_play, current_act, current_scene,
    current_speaker,                \* process_stage_directions locals
    chunk_size, chunks, current_chunk, current_word_count,  \* chunk locals
    current_rows,       \* history: indices of the rows held by current_chunk
    chunk_rows,         \* history: indices of the rows of each element of chunks
    error,              \* the exception that aborted the run, "" if none
    remerged            \* result of re-applying merge_chunks to one chunk

vars == <<pc, df, i, acts, scenes, lines, new_lines, characters, current_play,
          current_act, current_scene, current_speaker, chunk_size, chunks,
          current_chunk, current_word_count, current_rows, chunk_rows, error,
          remerged>>

aslVars == <<acts, scenes, lines>>

sdVars == <<new_lines, characters, current_play, current_act, current_scene,
            current_speaker>>

chunkVars == <<chunk_size, chunks, current_chunk, current_word_count,
               current_rows, chunk_rows>>

\* the state at the start of prepare_shakespeare_data, the table apart
InitLocals ==
    /\ pc = "process_act_scene_line"
    /\ i = 1
    /\ acts = <<>> /\ scenes = <<>> /\ lines = <<>>
    /\ new_lines = <<>>
    /\ characters = {}
    /\ current_play = None
    /\ current_act = NoneInt
    /\ current_scene = NoneInt
    /\ current_speaker = None
    /\ chunk_size = 0
    /\ chunks = <<>>
    /\ current_chunk = EmptyDict
    /\ current_word_count = 0
    /\ current_rows = <<>>
    /\ chunk_rows = <<>>
    /\ error = ""
    /\ remerged = EmptyDict

Init == df \in Inputs /\ InitLocals

(***************************************************************************)
(* process_act_scene_line                                                  *)
(***************************************************************************)
\* Python: v is None or pd.isna(v)
IsMissing(v) == v = None \/ v = NaN

\* positions after k whose identifier is present: iloc[k+1:].dropna()
ValidAfter(table, k) ==
    { j \in (k + 1)..Len(table) : ~IsMissing(table[j].ActSceneLine) }

\* mutation of NextValid: takes the last later identifier instead of the first
NextValid_Last(table, k) ==
    table[CHOOSE j \in ValidAfter(table, k) :
              \A j2 \in ValidAfter(table, k) : j >= j2].ActSceneLine

\* next_valid.iloc[0]: the identifier of the first later row that has one
NextValid(table, k) ==
    table[CHOOSE j \in ValidAfter(table, k) :
              \A j2 \in ValidAfter(table, k) : j <= j2].ActSceneLine

\* the list act_scene_line computed for row k
ActSceneLineOf(table, k) ==
    IF IsMissing(table[k].ActSceneLine)
    THEN IF ValidAfter(table, k) # {}
         THEN SplitOn(NextValid(table, k), ".", <<>>)
         ELSE << <<"0">>, <<"0">>, <<"0">> >>
    ELSE SplitOn(table[k].ActSceneLine, ".", <<>>)

AslLoop ==
    /\ pc = "process_act_scene_line"
    /\ i <= Len(df)
    /\ LET asl == ActSceneLineOf(df, i)
       IN  IF Len(asl) < 3
           THEN /\ error' = "IndexError"
                /\ pc' = "failed"
                /\ UNCHANGED <<i, acts, scenes, lines>>
           ELSE /\ acts' = Append(acts, asl[1])
                /\ scenes' = Append(scenes, asl[2])
                /\ lines' = Append(lines, asl[3])
                /\ i' = i + 1
                /\ UNCHANGED <<pc, error>>
    /\ UNCHANGED <<df, sdVars, chunkVars, remerged>>

AslReturn ==
    /\ pc = "process_act_scene_line"
    /\ i > Len(df)
    /\ df' = [k \in 1..Len(df) |->
                 Put(Put(Put(df[k], "Act", acts[k]), "Scene", scenes[k]),
                     "Line", lines[k])]
    /\ pc' = "process_stage_directions"
    /\ i' = 1
    /\ UNCHANGED <<aslVars, sdVars, chunkVars, error, remerged>>

(***************************************************************************)
(* process_stage_directions                                                *)
(***************************************************************************)
\* mutation of SceneKeyChanged: only a change of play resets the context
SceneKeyChanged_PlayOnly(row, play, act, scene) == row.Play # play

\* the test that resets the scene context
SceneKeyChanged(row, play, act, scene) ==
    \/ row.Play # play
    \/ row.Act # pystr(act)
    \/ row.Scene # pystr(scene)

\* mutation of StageDirection: the Exeunt rules are tested before Enter and Exit
StageDirection_ExeuntFirst(sd, chars, speaker) ==
    LET names == extract_names(sd)
        noNames == names = <<>> \/ names = << <<>> >>
    IN  IF Contains(sd, kwExeuntAllBut)
        THEN Range(names)
        ELSE IF Contains(sd, kwExeunt)
        THEN chars \ (IF noNames THEN chars ELSE Range(names))
        ELSE IF Contains(sd, kwEnter) \/ Contains(sd, kwReenter)
        THEN chars \cup Range(names)
        ELSE IF Contains(sd, kwExit)
        THEN chars \ (IF noNames THEN {speaker} ELSE Range(names))
        ELSE chars

\* the presence set after a stage direction sd
StageDirection(sd, chars, speaker) ==
    LET names == extract_names(sd)
        noNames == names = <<>> \/ names = << <<>> >>
    IN  IF Contains(sd, kwEnter) \/ Contains(sd, kwReenter)
        THEN chars \cup Range(names)
        ELSE IF Contains(sd, kwExit)
        THEN chars \ (IF noNames THEN {speaker} ELSE Range(names))
        ELSE IF Contains(sd, kwExeuntAllBut)
        THEN Range(names)
        ELSE IF Contains(sd, kwExeunt)
        THEN chars \ (IF noNames THEN chars ELSE Range(names))
        ELSE chars

\* the presence set at a row before the row's own transition
CharactersAtRow(row) ==
    IF SceneKeyChanged(row, current_play, current_act, current_scene)
    THEN {} ELSE characters

SdLoop ==
    /\ pc = "process_stage_directions"
    /\ i <= Len(df)
    /\ LET row == df[i]
           changed == SceneKeyChanged(row, current_play, current_act, current_scene)
           isSd == IsMissing(row.ActSceneLine)
           chars == IF isSd
                    THEN StageDirection(row.PlayerLine, CharactersAtRow(row),
                                        current_speaker)
                    ELSE CharactersAtRow(row)
       IN  /\ current_play' = IF changed THEN row.Play ELSE current_play
           /\ current_act' = IF changed THEN ParseInt(row.Act, 0) ELSE current_act
           /\ current_scene' = IF changed THEN ParseInt(row.Scene, 0)
                               ELSE current_scene
           /\ characters' = chars
           /\ current_speaker' = IF isSd THEN current_speaker ELSE row.Player
           /\ new_lines' = Append(new_lines, Put(row, "Characters", chars))
    /\ i' = i + 1
    /\ UNCHANGED <<pc, df, aslVars, chunkVars, error, remerged>>

\* new_df is returned and main.py calls chunk on it
SdReturn ==
    /\ pc = "process_stage_directions"
    /\ i > Len(df)
    /\ df' = new_lines
    /\ pc' = "chunk"
    /\ i' = 1
    /\ chunk_size' \in 2..MaxChunkSize
    /\ UNCHANGED <<aslVars, sdVars, chunks, current_chunk, current_word_count,
                   current_rows, chunk_rows, error, remerged>>

(***************************************************************************)
(* merge_chunks                                                            *)
(***************************************************************************)
IsError(r) == Has(r, "error")

\* a fragment that is a single dialogue row:
\* c.get("Player") and isinstance(c["Player"], str)
IsPlayerRow(c) == TruthyStr(Get(c, "Player")) /\ IsStr(Get(c, "Player"))

\* mutation of SpeakerChanges: compares with the first speaker of the order
SpeakerChanges_First(speaker_order, c) ==
    speaker_order = <<>> \/ Head(speaker_order) # c.Player

\* the speaker is written in front of the line of fragment c
SpeakerChanges(speaker_order, c) ==
    speaker_order = <<>> \/ Last(speaker_order) # c.Player

\* mutation of SceneMismatch: only the play is compared
SceneMismatch_PlayOnly(first, c) == c.Play # first.Play

\* fragment c is not of the play, act and scene of the first fragment
SceneMismatch(first, c) ==
    c.Play # first.Play \/ c.Act # first.Act \/ c.Scene # first.Scene

\* one iteration of the loop over the fragments
MergeFragment(cs, c, acc) ==
    IF SceneMismatch(cs[1], c)
    THEN [acc EXCEPT !.error = "ValueError"]
    ELSE IF IsPlayerRow(c)
    THEN LET prefixed == SpeakerChanges(acc.speaker_order, c)
             line == IF prefixed
                     THEN <<"\n">> \o c.Player \o <<":", " ">> \o c.PlayerLine
                     ELSE c.PlayerLine
         IN  [text |-> IF acc.text = <<>> THEN line
                       ELSE acc.text \o <<"\n">> \o line,
              speakers |-> acc.speakers \cup {c.Player},
              speaker_order |-> IF prefixed THEN Append(acc.speaker_order, c.Player)
                                ELSE acc.speaker_order,
              characters_present |->
                  acc.characters_present \cup GetSet(c, "Characters"),
              error |-> ""]
    ELSE IF GetSet(c, "Speakers") # {}
    THEN IF ~Has(c, "SpeakerOrder")
         THEN [acc EXCEPT !.error = "KeyError"]
         ELSE [text |-> IF acc.text = <<>> THEN c.PlayerLine
                        ELSE acc.text \o <<"\n">> \o c.PlayerLine,
               speakers |-> acc.speakers \cup c.Speakers,
               speaker_order |-> acc.speaker_order \o c.SpeakerOrder,
               characters_present |->
                   acc.characters_present \cup GetSet(c, "CharactersPresent"),
               error |-> ""]
    ELSE [acc EXCEPT !.text = IF acc.text = <<>> THEN c.PlayerLine
                               ELSE acc.text \o <<"\n">> \o c.PlayerLine]

RECURSIVE MergeLoop(_, _, _)
MergeLoop(cs, k, acc) ==
    IF k > Len(cs) \/ acc.error # "" THEN acc
    ELSE MergeLoop(cs, k + 1, MergeFragment(cs, cs[k], acc))

RowOnlyKeys ==
    {"PlayerLinenumber", "Player", "Characters", "Line", "ActSceneLine", "Dataline"}

merge_chunks(cs) ==
    LET acc == MergeLoop(cs, 1, [text |-> <<>>, speakers |-> {},
                                 speaker_order |-> <<>>,
                                 characters_present |-> {}, error |-> ""])
        m1 == Put(Put(Put(cs[1], "PlayerLine", acc.text),
                      "Speakers", acc.speakers),
                  "SpeakerOrder", acc.speaker_order)
        m2 == IF TruthyStr(Get(m1, "Line"))
              THEN Put(m1, "firstLine", cs[1].Line) ELSE m1
    IN  IF acc.error # "" THEN [error |-> acc.error]
        ELSE IF ~Has(Last(cs), "Line") THEN [error |-> "KeyError"]
        ELSE LET m3 == Put(m2, "lastLine", Last(cs).Line)
                 m4 == IF acc.characters_present # {}
                       THEN Put(m3, "CharactersPresent", acc.characters_present)
                       ELSE m3
             IN  Pop(m4, RowOnlyKeys)

(***************************************************************************)
(* chunk                                                                   *)
(***************************************************************************)
\* mutation of Exceeds: a row that fills the chunk exactly is split off
Exceeds_AtLeast(word_count, row_word_count, size) ==
    word_count + row_word_count >= size

\* mutation of Exceeds: tests the running count without the new row
Exceeds_IgnoresRow(word_count, row_word_count, size) == word_count > size

\* adding the row would exceed the chunk size
Exceeds(word_count, row_word_count, size) == word_count + row_word_count > size

\* mutation of SceneDiffers: the scene is not compared
SceneDiffers_NoScene(c, row) == c.Play # row.Play \/ c.Act # row.Act

\* the play, act or scene of the row is not that of the chunk
SceneDiffers(c, row) ==
    c.Play # row.Play \/ c.Act # row.Act \/ c.Scene # row.Scene

ChunkLoop ==
    /\ pc = "chunk"
    /\ i <= Len(df)
    /\ LET row == df[i]
           row_word_count == WordCount(row.PlayerLine)
       IN  IF DOMAIN current_chunk = {}
           THEN /\ current_chunk' = row
                /\ current_word_count' = row_word_count
                /\ current_rows' = <<i>>
                /\ i' = i + 1
                /\ UNCHANGED <<pc, chunks, chunk_rows, error>>
           ELSE LET close == \/ Exceeds(current_word_count, row_word_count,
                                        chunk_size)
                             \/ SceneDiffers(current_chunk, row)
                    merged == IF close THEN merge_chunks(<<row>>)
                              ELSE merge_chunks(<<current_chunk, row>>)
                IN  IF IsError(merged)
                    THEN /\ error' = merged.error
                         /\ pc' = "failed"
                         /\ chunks' = IF close THEN Append(chunks, current_chunk)
                                      ELSE chunks
                         /\ chunk_rows' = IF close
                                          THEN Append(chunk_rows, current_rows)
                                          ELSE chunk_rows
                         /\ UNCHANGED <<i, current_chunk, current_word_count,
                                        current_rows>>
                    ELSE /\ current_chunk' = merged
                         /\ chunks' = IF close THEN Append(chunks, current_chunk)
                                      ELSE chunks
                         /\ chunk_rows' = IF close
                                          THEN Append(chunk_rows, current_rows)
                                          ELSE chunk_rows
                         /\ current_word_count' =
                                IF close THEN row_word_count
                                ELSE current_word_count + row_word_count
                         /\ current_rows' = IF close THEN <<i>>
                                            ELSE Append(current_rows, i)
                         /\ i' = i + 1
                         /\ UNCHANGED <<pc, error>>
    /\ UNCHANGED <<df, aslVars, sdVars, chunk_size, remerged>>

\* the loop that removes SpeakerOrder, and the return of chunks
ChunkReturn ==
    /\ pc = "chunk"
    /\ i > Len(df)
    /\ chunks' = [k \in 1..Len(chunks) |-> Pop(chunks[k], {"SpeakerOrder"})]
    /\ pc' = "done"
    /\ UNCHANGED <<df, i, aslVars, sdVars, chunk_size, current_chunk,
                   current_word_count, current_rows, chunk_rows, error, remerged>>

Next ==
    \/ AslLoop
    \/ AslReturn
    \/ SdLoop
    \/ SdReturn
    \/ ChunkLoop
    \/ ChunkReturn

Spec == Init /\ [][Next]_vars

(***************************************************************************)
(* merge_chunks applied to one already merged chunk (one-element input).   *)
(***************************************************************************)
\* current_chunk has been produced by merge_chunks
IsMerged(c) == Has(c, "SpeakerOrder")

Remerge ==
    /\ pc = "chunk"
    /\ IsMerged(current_chunk)
    /\ remerged' = [m |-> current_chunk, result |-> merge_chunks(<<current_chunk>>)]
    /\ UNCHANGED <<pc, df, i, aslVars, sdVars, chunkVars, error>>

NextMerge == Next \/ Remerge

SpecMerge == Init /\ [][NextMerge]_vars

(***************************************************************************)
(* merge_chunks applied to the annotated rows of the table as its list of  *)
(* fragments, the first one as a row or already in chunk form.             *)
(***************************************************************************)
MergeTable ==
    /\ pc = "process_stage_directions"
    /\ i > Len(df)
    /\ Len(new_lines) >= 2
    /\ \E first \in {new_lines[1], merge_chunks(<<new_lines[1]>>)} :
          LET fragments == <<first>> \o Tail(new_lines)
          IN  remerged' = [fragments |-> fragments,
                           result |-> merge_chunks(fragments)]
    /\ pc' = "merge_chunks"
    /\ UNCHANGED <<df, i, aslVars, sdVars, chunkVars, error>>

NextFragments == Next \/ MergeTable

SpecFragments == Init /\ [][NextFragments]_vars

(***************************************************************************)
(* The pipeline on tables of stage directions with several keywords.       *)
(***************************************************************************)
InitKeywords == df \in Tables(KeywordRows) /\ InitLocals

SpecKeywords == InitKeywords /\ [][Next]_vars

(***************************************************************************)
(* Properties of chunk.                                                    *)
(***************************************************************************)
Chunking == pc \in {"chunk", "done"}

HasCurrent == DOMAIN current_chunk # {}

RECURSIVE Flatten(_)
Flatten(ss) == IF ss = <<>> THEN <<>> ELSE Head(ss) \o Flatten(Tail(ss))

RECURSIVE RowsWordCount(_)
\* sum of the word counts of the rows at the positions rs of df
RowsWordCount(rs) ==
    IF rs = <<>> THEN 0
    ELSE WordCount(df[Head(rs)].PlayerLine) + RowsWordCount(Tail(rs))

\* C1: when chunk() returns, the returned chunks, in order, cover the input
\* rows as contiguous runs in input order, every row in exactly one chunk;
\* the chunk holding the last row is in the returned list.
C1_EveryRowReturned ==
    pc = "done" => Flatten(chunk_rows) = [k \in 1..Len(df) |-> k]

\* all rows at the positions rs have the play, act and scene of chunk c
OneScene(c, rs) ==
    \A r \in Range(rs) :
        /\ df[r].Play = c.Play
        /\ df[r].Act = c.Act
        /\ df[r].Scene = c.Scene

\* C2: chunk() never aborts, and every chunk of the list and the accumulating
\* current chunk is built only from rows of one (Play, Act, Scene), which is
\* the Play, Act and Scene of the chunk.
C2_OneScenePerChunk ==
    /\ pc # "failed"
    /\ Chunking =>
        /\ HasCurrent => OneScene(current_chunk, current_rows)
        /\ \A k \in 1..Len(chunks) : OneScene(chunks[k], chunk_rows[k])

\* a two-row chunk was closed by a row of another scene
C2_Witness ==
    /\ pc = "done"
    /\ Len(chunks) = 1
    /\ Len(chunk_rows[1]) = 2
    /\ chunks[1].Scene # current_chunk.Scene
    /\ chunks[1].Play = current_chunk.Play

\* the rows at the positions rs fit the chunk size, or are one row
WithinSize(rs) == RowsWordCount(rs) <= chunk_size \/ Len(rs) = 1

\* C3: the word count of every chunk (sum of the word counts of its rows) is
\* at most chunk_size unless the chunk is a single row, and
\* current_word_count is that sum for the current chunk after every row.
C3_WordCountBounded ==
    Chunking =>
        /\ current_word_count = RowsWordCount(current_rows)
        /\ WithinSize(current_rows)
        /\ \A k \in 1..Len(chunk_rows) : WithinSize(chunk_rows[k])

\* two rows filled a chunk to exactly chunk_size, then a single row larger
\* than chunk_size became a chunk of its own
C3_Witness ==
    /\ pc = "done"
    /\ Len(chunk_rows) = 1
    /\ Len(chunk_rows[1]) = 2
    /\ RowsWordCount(chunk_rows[1]) = chunk_size
    /\ Len(current_rows) = 1
    /\ current_word_count > chunk_size

(***************************************************************************)
(* Properties of process_act_scene_line.                                   *)
(***************************************************************************)
Normalized == pc \in {"process_stage_directions", "chunk", "done"}

Coordinates(row) == <<row.Act, row.Scene, row.Line>>

HasIdentifier(row) == row.ActSceneLine # NaN

\* C4: after process_act_scene_line every row has Act, Scene and Line; a row
\* with an identifier has the identifier's three components, a row without
\* one has the coordinates of the first later row with an identifier, or
\* ("0","0","0") when there is none.
C4_CoordinatesFilled ==
    Normalized =>
        \A k \in 1..Len(df) :
            /\ {"Act", "Scene", "Line"} \subseteq DOMAIN df[k]
            /\ HasIdentifier(df[k]) =>
                /\ Join(Coordinates(df[k]), dot) = df[k].ActSceneLine
                /\ \A c \in 1..3 : ~Contains(Coordinates(df[k])[c], dot)
            /\ ~HasIdentifier(df[k]) =>
                IF \E j \in (k + 1)..Len(df) : HasIdentifier(df[j])
                THEN \E j \in (k + 1)..Len(df) :
                        /\ HasIdentifier(df[j])
                        /\ \A j2 \in (k + 1)..(j - 1) : ~HasIdentifier(df[j2])
                        /\ Coordinates(df[k]) = Coordinates(df[j])
                ELSE Coordinates(df[k]) = << <<"0">>, <<"0">>, <<"0">> >>

\* a stage direction right before a dialogue row has that row's coordinates,
\* and a stage direction after the last dialogue row has ("0","0","0")
C4_Witness ==
    /\ pc = "process_stage_directions"
    /\ Len(df) = 3
    /\ ~HasIdentifier(df[1])
    /\ HasIdentifier(df[2])
    /\ ~HasIdentifier(df[3])
    /\ Coordinates(df[1]) = Coordinates(df[2])
    /\ Coordinates(df[3]) = << <<"0">>, <<"0">>, <<"0">> >>

(***************************************************************************)
(* Properties of process_stage_directions.                                 *)
(***************************************************************************)
\* the row loop of process_stage_directions is about to process df[i]
SdStep == pc = "process_stage_directions" /\ i <= Len(df)

SceneKey(row) == <<row.Play, row.Act, row.Scene>>

\* df[i] is a stage direction: it has neither identifier nor speaker
AtStageDirection == SdStep /\ df[i].ActSceneLine = NaN /\ df[i].Player = NaN

\* the snapshot stamped on the row processed by the step
Stamped(rows) == Last(rows).Characters

\* the presence set a row's own transition yields from the empty set
OwnTransition(row) ==
    IF IsMissing(row.ActSceneLine)
    THEN StageDirection(row.PlayerLine, {}, current_speaker)
    ELSE {}

\* C5: at a row whose (Play, Act, Scene) differs from the previous row's the
\* presence set is emptied before the row's own transition, so the presence
\* set and the stamped snapshot hold only what the row itself adds.
C5_ResetOnSceneChange ==
    [][(SdStep /\ i > 1 /\ SceneKey(df[i]) # SceneKey(df[i - 1]))
        => /\ characters' = OwnTransition(df[i])
           /\ Stamped(new_lines') = characters']_vars

\* a character present at the last row of a scene is absent from the
\* snapshot of the first row of the next scene
C5_Witness ==
    /\ pc = "process_stage_directions"
    /\ Len(new_lines) >= 2
    /\ LET k == Len(new_lines)
       IN  /\ SceneKey(new_lines[k]) # SceneKey(new_lines[k - 1])
           /\ new_lines[k - 1].Characters # {}
           /\ new_lines[k].Characters = {}

\* C6: an Exeunt stage direction naming nobody ("Exeunt.", "Exeunt") empties
\* the presence set and the snapshot stamped on the row, whatever the
\* presence set was before.
C6_ExeuntEmptiesPresence ==
    [][(AtStageDirection /\ df[i].PlayerLine \in {txtExeuntDot, txtExeunt})
        => /\ characters' = {}
           /\ Stamped(new_lines') = {}]_vars

\* C7: after the stage direction "Exeunt all but HAMLET." the presence set
\* is exactly {"HAMLET"}, whatever it was before.
C7_ExeuntAllButHamlet ==
    [][(AtStageDirection /\ df[i].PlayerLine = txtExeuntAllButHamlet)
        => characters' = {HAMLET}]_vars

\* C8: extract_names("Enter HAMLET and OPHELIA.") is ["HAMLET", "OPHELIA"]
\* and the stage direction adds exactly HAMLET and OPHELIA to the presence set.
C8_EnterHamletAndOphelia ==
    [][(AtStageDirection /\ df[i].PlayerLine = txtEnterHamletAndOphelia)
        => /\ extract_names(df[i].PlayerLine) = <<HAMLET, OPHELIA>>
           /\ characters' = CharactersAtRow(df[i]) \cup {HAMLET, OPHELIA}]_vars

(***************************************************************************)
(* Properties of merge_chunks as used by chunk.                            *)
(***************************************************************************)
IsDialogue(row) == IsStr(row.Player)

SpeakerPrefix(speaker) == <<"\n">> \o speaker \o <<":", " ">>

RECURSIVE RenderRows(_, _)
\* the lines of the rows at the positions rs, a dialogue line prefixed with
\* its speaker when the previous dialogue row (speaker prev) had another one
RenderRows(rs, prev) ==
    IF rs = <<>> THEN <<>>
    ELSE LET row == df[Head(rs)]
         IN  IF IsDialogue(row)
             THEN << (IF row.Player # prev THEN SpeakerPrefix(row.Player)
                      ELSE <<>>) \o row.PlayerLine >>
                  \o RenderRows(Tail(rs), row.Player)
             ELSE <<row.PlayerLine>> \o RenderRows(Tail(rs), prev)

Transcript(rs) == Join(RenderRows(rs, None), <<"\n">>)

RECURSIVE CollapsedSpeakers(_, _)
\* the speakers of the dialogue rows at rs, consecutive repeats collapsed
CollapsedSpeakers(rs, prev) ==
    IF rs = <<>> THEN <<>>
    ELSE LET row == df[Head(rs)]
         IN  IF IsDialogue(row)
             THEN (IF row.Player # prev THEN <<row.Player>> ELSE <<>>)
                  \o CollapsedSpeakers(Tail(rs), row.Player)
             ELSE CollapsedSpeakers(Tail(rs), prev)

NoAdjacentRepeat(s) == \A k \in 1..(Len(s) - 1) : s[k] # s[k + 1]

\* chunk c, built by merge_chunks from the rows at rs, renders them as a
\* transcript and keeps their collapsed speaker order
TranscriptOf(c, rs) ==
    /\ c.PlayerLine = Transcript(rs)
    /\ Has(c, "SpeakerOrder") =>
        /\ c.SpeakerOrder = CollapsedSpeakers(rs, None)
        /\ NoAdjacentRepeat(c.SpeakerOrder)

\* C9: every chunk built by merge_chunks inside chunk() (row+row, chunk+row,
\* single row after a boundary) has as speaker order the speakers of its
\* dialogue rows with consecutive repeats collapsed, and its text prefixes a
\* dialogue row with "\n<SPEAKER>: " exactly when the speaker differs from the
\* previous dialogue row's or the row is the chunk's first dialogue row.
C9_SpeakerOrderCollapsed ==
    Chunking =>
        /\ IsMerged(current_chunk) => TranscriptOf(current_chunk, current_rows)
        /\ \A k \in 1..Len(chunks) :
               Has(chunks[k], "Speakers") => TranscriptOf(chunks[k], chunk_rows[k])

\* rows HAMLET, HAMLET, OPHELIA merged into one chunk: order [HAMLET, OPHELIA],
\* the first HAMLET line and the OPHELIA line prefixed once each
C9_Witness ==
    /\ Chunking
    /\ current_rows = <<1, 2, 3>>
    /\ df[1].Player = HAMLET /\ df[2].Player = HAMLET /\ df[3].Player = OPHELIA
    /\ current_chunk.SpeakerOrder = <<HAMLET, OPHELIA>>
    /\ current_chunk.PlayerLine =
           SpeakerPrefix(HAMLET) \o df[1].PlayerLine \o <<"\n">>
           \o df[2].PlayerLine \o <<"\n">>
           \o SpeakerPrefix(OPHELIA) \o df[3].PlayerLine

VisibleFields ==
    {"Play", "Act", "Scene", "PlayerLine", "Speakers", "firstLine", "lastLine",
     "CharactersPresent"}

SameVisibleFields(a, b) ==
    \A f \in VisibleFields :
        /\ Has(a, f) <=> Has(b, f)
        /\ Has(a, f) => a[f] = b[f]

\* C10: for every chunk m produced by merge_chunks, merge_chunks([m])
\* completes and returns a chunk with the visible fields of m.
C10_MergeIdempotent ==
    Has(remerged, "m") =>
        /\ ~IsError(remerged.result)
        /\ SameVisibleFields(remerged.result, remerged.m)

(***************************************************************************)
(* Properties of the chunks returned by chunk.                             *)
(***************************************************************************)
BookkeepingKeys ==
    {"Player", "Characters", "Line", "ActSceneLine", "PlayerLinenumber",
     "SpeakerOrder"}

\* c is in chunk form and renders the rows at the positions rs
ChunkForm(c, rs) ==
    /\ {"Speakers", "lastLine"} \subseteq DOMAIN c
    /\ (DOMAIN c) \cap BookkeepingKeys = {}
    /\ c.PlayerLine = Transcript(rs)

\* C11: every element of the list returned by chunk() is in chunk form: it
\* has Speakers and lastLine, its text is the merge-rule rendering of its
\* rows, and it has none of Player, Characters, Line, ActSceneLine,
\* PlayerLinenumber, SpeakerOrder; also a first chunk made of the first row.
C11_ReturnedChunkForm ==
    pc = "done" => \A k \in 1..Len(chunks) : ChunkForm(chunks[k], chunk_rows[k])

\* C12: in every returned chunk firstLine is the Line of the chunk's first
\* row and lastLine is the Line of its last row.
C12_FirstAndLastLine ==
    pc = "done" =>
        \A k \in 1..Len(chunks) :
            /\ {"firstLine", "lastLine"} \subseteq DOMAIN chunks[k]
            /\ chunks[k].firstLine = df[Head(chunk_rows[k])].Line
            /\ chunks[k].lastLine = df[Last(chunk_rows[k])].Line

\* union of the presence snapshots of the rows at the positions rs
SnapshotUnion(rs) == UNION { df[r].Characters : r \in Range(rs) }

\* the speakers of the rows at the positions rs
SpeakersOf(rs) == { df[r].Player : r \in { q \in Range(rs) : IsDialogue(df[q]) } }

\* C13: in every returned chunk CharactersPresent is the union of the
\* presence snapshots of the chunk's rows (the field is omitted when the
\* union is empty) and Speakers is the set of the speakers of those rows.
C13_PresenceUnion ==
    pc = "done" =>
        \A k \in 1..Len(chunks) :
            /\ Has(chunks[k], "Speakers")
            /\ chunks[k].Speakers = SpeakersOf(chunk_rows[k])
            /\ Has(chunks[k], "CharactersPresent") <=> SnapshotUnion(chunk_rows[k]) # {}
            /\ GetSet(chunks[k], "CharactersPresent") = SnapshotUnion(chunk_rows[k])

\* the runs of rows of all chunks, the open one last
AllRuns == IF HasCurrent THEN Append(chunk_rows, current_rows) ELSE chunk_rows

\* C14: a chunk is closed at a row only if the row's (Play, Act, Scene)
\* differs from the chunk's or the chunk's words plus the row's exceed
\* chunk_size; a row of the same scene that fits, also exactly, is merged.
C14_Greedy ==
    Chunking =>
        \A k \in 1..(Len(AllRuns) - 1) :
            LET a == AllRuns[k]
                b == Head(AllRuns[k + 1])
            IN  \/ SceneKey(df[Last(a)]) # SceneKey(df[b])
                \/ RowsWordCount(a) + WordCount(df[b].PlayerLine) > chunk_size

\* three one-word rows of one scene with chunk_size 2: rows 1 and 2 form one
\* chunk of exactly chunk_size words and row 3 starts the next
C14_Witness ==
    /\ pc = "done"
    /\ chunk_size = 2
    /\ chunk_rows = << <<1, 2>> >>
    /\ current_rows = <<3>>
    /\ \A r \in 1..3 : WordCount(df[r].PlayerLine) = 1
    /\ SceneKey(df[1]) = SceneKey(df[2]) /\ SceneKey(df[2]) = SceneKey(df[3])

(***************************************************************************)
(* Properties of the presence tracker: speaker, keywords, row kinds.       *)
(***************************************************************************)
\* the row has a speaker exactly when it has an identifier
Plain(row) == HasIdentifier(row) <=> IsDialogue(row)

PlainUpTo(k) == \A j \in 1..k : Plain(df[j])

NoNames(names) == names = <<>> \/ names = << <<>> >>

IsEnter(sd) == Contains(sd, kwEnter) \/ Contains(sd, kwReenter)

RECURSIVE SpeakerBefore(_, _)
\* the speaker of the last dialogue row among the rows j, j-1, ... that have
\* the (Play, Act, Scene) of row k; None when there is none
SpeakerBefore(j, k) ==
    IF j = 0 THEN None
    ELSE IF SceneKey(df[j]) # SceneKey(df[k]) THEN None
    ELSE IF IsDialogue(df[j]) THEN df[j].Player
    ELSE SpeakerBefore(j - 1, k)

\* C15: an Exit stage direction without names removes exactly the last known
\* speaker of the current scene; the speaker is forgotten at a scene-key
\* change, so an Exit before any dialogue row of the new scene removes nobody.
C15_ExitRemovesSceneSpeaker ==
    [][(/\ AtStageDirection
        /\ PlainUpTo(i)
        /\ Contains(df[i].PlayerLine, kwExit)
        /\ ~IsEnter(df[i].PlayerLine)
        /\ NoNames(extract_names(df[i].PlayerLine)))
        => characters' = CharactersAtRow(df[i]) \ {SpeakerBefore(i - 1, i)}]_vars

\* the rule that applies to a stage direction text, first match in the order
\* Enter/Re-enter, Exit, Exeunt all but, Exeunt, Other
RuleOf(sd) ==
    IF IsEnter(sd) THEN "Enter"
    ELSE IF Contains(sd, kwExit) THEN "Exit"
    ELSE IF Contains(sd, kwExeuntAllBut) THEN "ExeuntAllBut"
    ELSE IF Contains(sd, kwExeunt) THEN "Exeunt"
    ELSE "Other"

\* C16: a stage direction is handled by the first matching rule in the order
\* Enter/Re-enter, Exit, Exeunt all but, Exeunt, Other, and by that rule
\* only: with Enter and Exeunt in the text names are only added, with Exit
\* and Exeunt the Exit rule applies, "Exeunt all but" never takes the plain
\* Exeunt rule.
C16_FirstKeywordWins ==
    [][AtStageDirection =>
        LET sd == df[i].PlayerLine
            before == CharactersAtRow(df[i])
            names == extract_names(sd)
            named == Range(names)
        IN  /\ RuleOf(sd) = "Enter" =>
                /\ characters' = before \cup named
                /\ before \subseteq characters'
            /\ RuleOf(sd) = "Exit" =>
                characters' = before \ (IF NoNames(names) THEN {current_speaker}
                                        ELSE named)
            /\ RuleOf(sd) = "ExeuntAllBut" => characters' = named
            /\ RuleOf(sd) = "Exeunt" =>
                characters' = (IF NoNames(names) THEN {} ELSE before \ named)
            /\ RuleOf(sd) = "Other" => characters' = before]_vars

\* "Enter HAMLET. Exeunt OPHELIA" with OPHELIA present: both are present
\* afterwards, nobody has been removed
C16_Witness ==
    /\ pc = "process_stage_directions"
    /\ Len(new_lines) >= 2
    /\ LET k == Len(new_lines)
       IN  /\ new_lines[k].PlayerLine = txtEnterExeunt
           /\ new_lines[k - 1].Characters = {OPHELIA}
           /\ new_lines[k].Characters = {HAMLET, OPHELIA}

\* C17: a dialogue row, or a stage direction without keyword, that has the
\* (Play, Act, Scene) of the previous row leaves the presence set unchanged,
\* for every encoding of act and scene.
C17_NoResetWithinScene ==
    [][(/\ SdStep
        /\ i > 1
        /\ SceneKey(df[i]) = SceneKey(df[i - 1])
        /\ Plain(df[i])
        /\ IsDialogue(df[i]) \/ RuleOf(df[i].PlayerLine) = "Other")
        => /\ characters' = characters
           /\ Stamped(new_lines') = Stamped(new_lines)]_vars

\* C19: the tracker handles a row as dialogue exactly when it has a speaker
\* (current_speaker is updated, the presence set is left alone) and as a
\* stage direction exactly when it has none.
C19_SpeakerDecidesRowKind ==
    [][SdStep =>
        IF IsDialogue(df[i])
        THEN /\ characters' = CharactersAtRow(df[i])
             /\ current_speaker' = df[i].Player
        ELSE /\ characters' = StageDirection(df[i].PlayerLine,
                                             CharactersAtRow(df[i]), current_speaker)
             /\ current_speaker' = current_speaker]_vars

Blank(name) == strip(name) = <<>>

\* C20: extract_names returns no empty or whitespace-only name for the text
\* of any processed stage direction, and neither the presence set nor any
\* stamped snapshot contains such a name.
C20_NoEmptyName ==
    /\ \A name \in characters : ~Blank(name)
    /\ \A k \in 1..Len(new_lines) :
        /\ \A name \in new_lines[k].Characters : ~Blank(name)
        /\ IsMissing(new_lines[k].ActSceneLine) =>
            \A name \in Range(extract_names(new_lines[k].PlayerLine)) : ~Blank(name)

(***************************************************************************)
(* Properties of the scene check of merge_chunks.                          *)
(***************************************************************************)
\* C18: merge_chunks fails with the ValueError and returns no merged chunk
\* when a fragment at any position is not of the (Play, Act, Scene) of the
\* first one, and chunk() never runs into that error.
C18_MismatchIsFatal ==
    /\ error # "ValueError"
    /\ Has(remerged, "fragments") =>
        LET fragments == remerged.fragments
        IN  (\E k \in 1..Len(fragments) :
                 SceneKey(fragments[k]) # SceneKey(fragments[1]))
            => remerged.result = [error |-> "ValueError"]

\* three fragments, the first already merged, the third of another scene
C18_Witness ==
    /\ Has(remerged, "fragments")
    /\ Len(remerged.fragments) = 3
    /\ Has(remerged.fragments[1], "Speakers")
    /\ SceneKey(remerged.fragments[2]) = SceneKey(remerged.fragments[1])
    /\ remerged.fragments[3].Play = remerged.fragments[1].Play
    /\ remerged.fragments[3].Scene # remerged.fragments[1].Scene
    /\ remerged.result = [error |-> "ValueError"]

====
